---------------------------- MODULE Spec2Model ----------------------------
(***************************************************************************)
(* POST /convert of backend-fastapi/api/routes/covert.py: the endpoint     *)
(* handler, the two-node workflow (extract_languages -> convert_code) and  *)
(* the gateway (utils.chat.chat) it calls twice.                           *)
(*                                                                         *)
(* A request is a thread of control: pc[r] is where it stands, node[r] the *)
(* workflow node it is at.  The gateway is the environment: a call is      *)
(* appended to calls[r] when a node issues it, and the reply (a returned   *)
(* text or a raised exception) is appended to replies[r] when it arrives.  *)
(***************************************************************************)
EXTENDS Naturals, Sequences, FiniteSets, TLC

\* Number of requests that may be in flight together (ConcSpec).
NumRequests == 2

\* Longest notes / issues list in a gateway reply.
MaxNotes == 1

Requests == 1..NumRequests

----------------------------------------------------------------------------
(* Program constants *)

\* class ProgrammingLanguage(str, Enum): the values.
ProgrammingLanguage ==
    { "javascript", "typescript", "php", "html", "css",
      "python", "java", "csharp", "go", "rust", "ruby", "nodejs",
      "kotlin", "swift", "dart", "flutter", "react_native",
      "cpp", "c", "assembly",
      "sql", "plsql", "mongodb",
      "bash", "powershell",
      "scala", "haskell", "elixir",
      "r", "julia", "matlab",
      "terraform", "kubernetes", "docker",
      "lua", "perl", "groovy", "cobol", "fortran" }

\* CodeConvertRequest.prompt's default.
DefaultPrompt == "Convert the code to the target language."

\* The prefix of the HTTPException's detail.
FailurePrefix == "Code conversion failed: "

----------------------------------------------------------------------------
(* JSON values.  A leaf is a string or an array of strings; a document is  *)
(* an object (a dict of leaves) or something that is no object.            *)

JStr(x) == [ty |-> "string", s |-> x, l |-> <<>>]
JArr(q) == [ty |-> "array", s |-> "", l |-> q]

EmptyDict == [k \in {} |-> JStr("")]

JObject(f) == [kind |-> "object", fields |-> f]
JList == [kind |-> "array", fields |-> EmptyDict]

\* A text the gateway returns: it is the encoding of a JSON document, or it
\* is no JSON and json.loads raises JSONDecodeError with `error`.
TextOf(doc) == [parses |-> TRUE, doc |-> doc, error |-> ""]
NotJson == [parses |-> FALSE, doc |-> JList,
            error |-> "Expecting value: line 1 column 1 (char 0)"]

\* What chat() does: it returns a text, or it raises.
Returns(text) == [kind |-> "return", text |-> text, msg |-> ""]
Raises(m) == [kind |-> "raise", text |-> NotJson, msg |-> m]

\* The outcome of evaluating Python code that may raise.
Ok(v) == [ok |-> TRUE, value |-> v, error |-> ""]
Raise(m) == [ok |-> FALSE, value |-> JList, error |-> m]

\* json.loads(response)
json_loads(text) ==
    IF text.parses THEN Ok(text.doc) ELSE Raise(text.error)

\* str(KeyError(key))
KeyErrorStr(key) ==
    CASE key = "source_language" -> "'source_language'"
      [] key = "target_language" -> "'target_language'"
      [] key = "code" -> "'code'"
      [] key = "language_specific_notes" -> "'language_specific_notes'"
      [] key = "potential_compatibility_issues" -> "'potential_compatibility_issues'"

\* str(TypeError) of subscripting a list with a str.
ListIndexError == "list indices must be integers or slices, not str"

\* d[key] for a parsed document d.
Subscript(d, key) ==
    IF d.kind # "object" THEN [ok |-> FALSE, value |-> JStr(""), error |-> ListIndexError]
    ELSE IF key \notin DOMAIN d.fields
         THEN [ok |-> FALSE, value |-> JStr(""), error |-> KeyErrorStr(key)]
    ELSE [ok |-> TRUE, value |-> d.fields[key], error |-> ""]

----------------------------------------------------------------------------
(* The request and the pipeline state *)

\* Mutant: the model declares no default for prompt.
CodeConvertRequestNoDefault(b) ==
    [code |-> b["code"],
     prompt |-> IF "prompt" \in DOMAIN b THEN b["prompt"] ELSE ""]

\* CodeConvertRequest: `code` is required, `prompt` has a default.  The body
\* is the JSON object of the request, a function from its keys.
ValidBody(b) == "code" \in DOMAIN b

CodeConvertRequest(b) ==
    [code |-> b["code"],
     prompt |-> IF "prompt" \in DOMAIN b THEN b["prompt"] ELSE DefaultPrompt]

\* ConversionState(TypedDict) as the handler builds it.
InitialState(request) ==
    [code |-> request.code,
     prompt |-> request.prompt,
     source_language |-> JStr(""),
     target_language |-> JStr(""),
     result |-> JObject(EmptyDict)]

\* Mutant: one module-level state instance, used by every request.
SharedSlot(r) == 1

\* initial_state is a local of the handler's invocation: request r owns the
\* instance in slot r.
PipelineStateSlot(r) == r

----------------------------------------------------------------------------
(* Responses *)

NoResponse == [status |-> 0, body |-> EmptyDict, detail |-> <<>>]

\* The framework's answer to a body that fails CodeConvertRequest.
ValidationErrorResponse == [status |-> 422, body |-> EmptyDict, detail |-> <<"code", "Field required">>]

\* Mutant: the detail leaves the exception's message out.
HTTPException500NoMessage(m) ==
    [status |-> 500, body |-> EmptyDict, detail |-> <<"Code conversion failed: ", "">>]

\* raise HTTPException(status_code=500, detail=f"Code conversion failed: {str(e)}")
\* m is str(e) as the sequence of the pieces it is the concatenation of (one
\* piece for every exception but the response model's validation error).
HTTPException500(m) == [status |-> 500, body |-> EmptyDict, detail |-> <<FailurePrefix>> \o m]


\* return CodeConvertResponse(code=final_state["result"]["code"], ...): the
\* three subscripts in order, then the response model's validation of the
\* field types (code: str, the other two: list[str]).
ResponseFields == <<"code", "language_specific_notes", "potential_compatibility_issues">>

FieldTypeOk(key, v) ==
    IF key = "code" THEN v.ty = "string" ELSE v.ty = "array"

\* repr(v) of a leaf, in pieces: a str in single quotes (the strings here
\* hold no quote or escape), a list of strs in brackets.
RECURSIVE ReprItems(_)
ReprItems(q) ==
    IF q = <<>> THEN <<>>
    ELSE IF Len(q) = 1 THEN <<"'", q[1], "'">>
    ELSE <<"'", q[1], "'", ", ">> \o ReprItems(Tail(q))

PyRepr(v) ==
    IF v.ty = "string" THEN <<"'", v.s, "'">>
    ELSE <<"[">> \o ReprItems(v.l) \o <<"]">>

\* The validation error's lines for one offending field.
FieldErrorStr(key, v) ==
    <<"\n", key>>
    \o (IF key = "code"
        THEN <<"\n  Input should be a valid string [type=string_type, input_value=">>
        ELSE <<"\n  Input should be a valid list [type=list_type, input_value=">>)
    \o PyRepr(v)
    \o (IF v.ty = "string" THEN <<", input_type=str]">> ELSE <<", input_type=list]">>)
    \o (IF key = "code"
        THEN <<"\n    For further information visit https://errors.pydantic.dev/2.13/v/string_type">>
        ELSE <<"\n    For further information visit https://errors.pydantic.dev/2.13/v/list_type">>)

\* str(e) of the response model's ValidationError: the count of offending
\* fields, then the lines of each in the order of the fields.
RECURSIVE FieldErrors(_, _)
FieldErrors(fields, i) ==
    IF i > Len(ResponseFields) THEN <<>>
    ELSE (IF FieldTypeOk(ResponseFields[i], fields[ResponseFields[i]]) THEN <<>>
          ELSE FieldErrorStr(ResponseFields[i], fields[ResponseFields[i]]))
         \o FieldErrors(fields, i + 1)

ValidationErrorStr(fields) ==
    LET n == Cardinality({i \in 1..Len(ResponseFields) :
                            ~FieldTypeOk(ResponseFields[i], fields[ResponseFields[i]])})
    IN  <<IF n = 1 THEN "1 validation error for CodeConvertResponse"
          ELSE IF n = 2 THEN "2 validation errors for CodeConvertResponse"
          ELSE "3 validation errors for CodeConvertResponse">>
        \o FieldErrors(fields, 1)

\* Mutant: the notes and the issues are taken from each other's key.
CodeConvertResponseSwapped(final_state) ==
    LET result == final_state.result
        sub(i) == Subscript(result, ResponseFields[i])
        bad == {i \in 1..3 : ~sub(i).ok}
        first == CHOOSE i \in bad : \A j \in bad : i <= j
    IN  IF bad # {} THEN HTTPException500(<<sub(first).error>>)
        ELSE IF \E i \in 1..3 : ~FieldTypeOk(ResponseFields[i], sub(i).value)
             THEN HTTPException500(ValidationErrorStr(result.fields))
        ELSE [status |-> 200,
              body |-> [k \in {ResponseFields[i] : i \in 1..3} |->
                          IF k = "language_specific_notes"
                          THEN result.fields["potential_compatibility_issues"]
                          ELSE IF k = "potential_compatibility_issues"
                          THEN result.fields["language_specific_notes"]
                          ELSE result.fields[k]],
              detail |-> <<>>]

\* Mutant: the response is built from whatever result holds, unvalidated.
CodeConvertResponsePartial(final_state) ==
    LET result == final_state.result IN
    [status |-> 200,
     body |-> [k \in DOMAIN result.fields |-> result.fields[k]],
     detail |-> <<>>]

CodeConvertResponse(final_state) ==
    LET result == final_state.result
        sub(i) == Subscript(result, ResponseFields[i])
        bad == {i \in 1..3 : ~sub(i).ok}
        first == CHOOSE i \in bad : \A j \in bad : i <= j
    IN  IF bad # {} THEN HTTPException500(<<sub(first).error>>)
        ELSE IF \E i \in 1..3 : ~FieldTypeOk(ResponseFields[i], sub(i).value)
             THEN HTTPException500(ValidationErrorStr(result.fields))
        ELSE [status |-> 200,
              body |-> [k \in {ResponseFields[i] : i \in 1..3} |-> result.fields[k]],
              detail |-> <<>>]

----------------------------------------------------------------------------
(* The gateway calls the two nodes issue *)

LanguageKeys == <<"source_language", "target_language">>

\* extract_languages: the prompt (an f-string over state["prompt"] and
\* state["code"]) and the arguments of chat().
ExtractCall(st) ==
    [prompt |-> [template |-> "extract_languages",
                 args |-> <<JStr(st.prompt), JStr(st.code)>>],
     temperature |-> "0",
     required |-> LanguageKeys,
     enum |-> ProgrammingLanguage]

\* convert_code: the prompt names source_language three times, then
\* target_language once (after the first source), and the code.
ConvertCall(st) ==
    [prompt |-> [template |-> "convert_code",
                 args |-> <<st.source_language, st.target_language,
                            st.source_language, st.source_language,
                            JStr(st.code)>>],
     temperature |-> "0.3",
     required |-> ResponseFields,
     enum |-> {}]

\* The outcome of a node: the state it returns, or the exception it raises.
NodeOk(st) == [ok |-> TRUE, state |-> st, error |-> ""]
NodeRaise(st, m) == [ok |-> FALSE, state |-> st, error |-> m]

\* Mutant: a language the reply lacks is read as "" (dict.get).
extract_languages_lenient(st, reply) ==
    IF reply.kind = "raise" THEN NodeRaise(st, reply.msg)
    ELSE LET languages == json_loads(reply.text) IN
         IF ~languages.ok THEN NodeRaise(st, languages.error)
         ELSE LET src == Subscript(languages.value, "source_language")
                  tgt == Subscript(languages.value, "target_language")
              IN  NodeOk([st EXCEPT !.source_language = src.value,
                                    !.target_language = tgt.value])

\* Mutant: the two languages are written to each other's field.
extract_languages_swapped(st, reply) ==
    IF reply.kind = "raise" THEN NodeRaise(st, reply.msg)
    ELSE LET languages == json_loads(reply.text) IN
         IF ~languages.ok THEN NodeRaise(st, languages.error)
         ELSE LET src == Subscript(languages.value, "source_language")
                  tgt == Subscript(languages.value, "target_language")
              IN  IF ~src.ok THEN NodeRaise(st, src.error)
                  ELSE IF ~tgt.ok
                       THEN NodeRaise([st EXCEPT !.source_language = src.value], tgt.error)
                  ELSE NodeOk([st EXCEPT !.source_language = tgt.value,
                                         !.target_language = src.value])

\* extract_languages from the gateway's reply on: json.loads, then the
\* subscript and the write of source_language, then the subscript and the
\* write of target_language.  When the second subscript raises, the state
\* dict already holds the new source_language.
extract_languages(st, reply) ==
    IF reply.kind = "raise" THEN NodeRaise(st, reply.msg)
    ELSE LET languages == json_loads(reply.text) IN
         IF ~languages.ok THEN NodeRaise(st, languages.error)
         ELSE LET src == Subscript(languages.value, "source_language") IN
              IF ~src.ok THEN NodeRaise(st, src.error)
              ELSE LET st1 == [st EXCEPT !.source_language = src.value]
                       tgt == Subscript(languages.value, "target_language")
                   IN  IF ~tgt.ok THEN NodeRaise(st1, tgt.error)
                       ELSE NodeOk([st1 EXCEPT !.target_language = tgt.value])

\* convert_code from the gateway's reply on: state["result"] = json.loads(response)
convert_code(st, reply) ==
    IF reply.kind = "raise" THEN NodeRaise(st, reply.msg)
    ELSE LET parsed == json_loads(reply.text) IN
         IF ~parsed.ok THEN NodeRaise(st, parsed.error)
         ELSE NodeOk([st EXCEPT !.result = parsed.value])

----------------------------------------------------------------------------
(* build_chain: the workflow graph *)

EntryPoint == "extract_languages"
End == "__end__"

\* Mutant: convert_code has an edge back to extract_languages.
NextNodeCycle(n) ==
    IF n = "extract_languages" THEN "convert_code" ELSE "extract_languages"

\* add_edge("extract_languages", "convert_code"); set_finish_point("convert_code")
NextNode(n) ==
    IF n = "extract_languages" THEN "convert_code" ELSE End

----------------------------------------------------------------------------
(* State *)

VARIABLES
    pc,        \* pc[r]: "idle", "start" (a node is about to run), "wait"
               \* (its gateway call is outstanding), "respond", "done"
    node,      \* node[r]: the workflow node request r is at
    body,      \* body[r]: the JSON body request r was sent with
    state,     \* state[slot]: the ConversionState dict the nodes work on
    calls,     \* calls[r]: the gateway calls r issued, in order
    replies,   \* replies[r]: the gateway's replies to them, in order
    response   \* response[r]: what the handler answered

vars == <<pc, node, body, state, calls, replies, response>>

NoBody == [k \in {} |-> ""]

Init ==
    /\ pc = [r \in Requests |-> "idle"]
    /\ node = [r \in Requests |-> ""]
    /\ body = [r \in Requests |-> NoBody]
    /\ state = [r \in Requests |-> InitialState([code |-> "", prompt |-> ""])]
    /\ calls = [r \in Requests |-> <<>>]
    /\ replies = [r \in Requests |-> <<>>]
    /\ response = [r \in Requests |-> NoResponse]

\* Mutant: the node that raised is run again.
FailRetry(r, m) ==
    /\ response' = response
    /\ pc' = [pc EXCEPT ![r] = "start"]

\* What the except clause does with an exception raised under the try.
Fail(r, m) ==
    /\ response' = [response EXCEPT ![r] = HTTPException500(<<m>>)]
    /\ pc' = [pc EXCEPT ![r] = "done"]

\* After a node returned: the next node runs, or chain.invoke returns.
Advance(r) ==
    LET n == NextNode(node[r]) IN
    /\ node' = [node EXCEPT ![r] = n]
    /\ pc' = [pc EXCEPT ![r] = IF n = End THEN "respond" ELSE "start"]

\* The request arrives: the body is validated into a CodeConvertRequest
\* (422 when it is not one), the handler builds initial_state and the chain
\* and invokes it.
Receive(r, b) ==
    /\ pc[r] = "idle"
    /\ body' = [body EXCEPT ![r] = b]
    /\ IF ValidBody(b)
       THEN /\ state' = [state EXCEPT ![PipelineStateSlot(r)] =
                            InitialState(CodeConvertRequest(b))]
            /\ node' = [node EXCEPT ![r] = EntryPoint]
            /\ pc' = [pc EXCEPT ![r] = "start"]
            /\ UNCHANGED response
       ELSE /\ response' = [response EXCEPT ![r] = ValidationErrorResponse]
            /\ pc' = [pc EXCEPT ![r] = "done"]
            /\ UNCHANGED <<state, node>>
    /\ UNCHANGED <<calls, replies>>

\* extract_languages up to its call of chat().
ExtractLanguagesCall(r) ==
    /\ pc[r] = "start" /\ node[r] = "extract_languages"
    /\ calls' = [calls EXCEPT ![r] = Append(@, ExtractCall(state[PipelineStateSlot(r)]))]
    /\ pc' = [pc EXCEPT ![r] = "wait"]
    /\ UNCHANGED <<node, body, state, replies, response>>

\* chat() returns or raises; extract_languages runs to its end, or to the
\* statement that raises: the state dict keeps what was written before it.
ExtractLanguagesReturn(r, reply) ==
    /\ pc[r] = "wait" /\ node[r] = "extract_languages"
    /\ replies' = [replies EXCEPT ![r] = Append(@, reply)]
    /\ LET out == extract_languages(state[PipelineStateSlot(r)], reply) IN
       /\ state' = [state EXCEPT ![PipelineStateSlot(r)] = out.state]
       /\ IF out.ok
          THEN /\ Advance(r)
               /\ UNCHANGED response
          ELSE /\ Fail(r, out.error)
               /\ UNCHANGED node
    /\ UNCHANGED <<body, calls>>

\* convert_code up to its call of chat().
ConvertCodeCall(r) ==
    /\ pc[r] = "start" /\ node[r] = "convert_code"
    /\ calls' = [calls EXCEPT ![r] = Append(@, ConvertCall(state[PipelineStateSlot(r)]))]
    /\ pc' = [pc EXCEPT ![r] = "wait"]
    /\ UNCHANGED <<node, body, state, replies, response>>

\* chat() returns or raises; convert_code runs to its end.
ConvertCodeReturn(r, reply) ==
    /\ pc[r] = "wait" /\ node[r] = "convert_code"
    /\ replies' = [replies EXCEPT ![r] = Append(@, reply)]
    /\ LET out == convert_code(state[PipelineStateSlot(r)], reply) IN
       /\ state' = [state EXCEPT ![PipelineStateSlot(r)] = out.state]
       /\ IF out.ok
          THEN /\ Advance(r)
               /\ UNCHANGED response
          ELSE /\ Fail(r, out.error)
               /\ UNCHANGED node
    /\ UNCHANGED <<body, calls>>

\* chain.invoke returned final_state: the handler builds the response, or
\* the exception doing so raises becomes the 500.
Respond(r) ==
    /\ pc[r] = "respond"
    /\ response' = [response EXCEPT ![r] =
                        CodeConvertResponse(state[PipelineStateSlot(r)])]
    /\ pc' = [pc EXCEPT ![r] = "done"]
    /\ UNCHANGED <<node, body, state, calls, replies>>

----------------------------------------------------------------------------
(* Inputs *)

Codes == {"", "print('hi')"}
Prompts == {DefaultPrompt, "Convert Python to Go"}

\* Request bodies: any subset of the two keys.
Bodies ==
    UNION { [D -> Codes \cup Prompts] : D \in SUBSET {"code", "prompt"} }

RequestBodies ==
    { b \in Bodies : /\ ("code" \in DOMAIN b => b["code"] \in Codes)
                     /\ ("prompt" \in DOMAIN b => b["prompt"] \in Prompts) }

GatewayErrors == {"gateway unavailable"}

\* Stage 1 replies: language dicts over any subset of the two keys, with
\* values inside and outside the catalog and one of the wrong type.
LanguageValues == {JStr("python"), JStr("go"), JStr("klingon"), JArr(<<>>)}

LanguageDicts ==
    UNION { [D -> LanguageValues] : D \in SUBSET {"source_language", "target_language"} }

Texts(dicts) ==
    {NotJson, TextOf(JList)} \cup {TextOf(JObject(f)) : f \in dicts}

GatewayReplies(dicts) ==
    {Raises(m) : m \in GatewayErrors} \cup {Returns(t) : t \in Texts(dicts)}

Replies1 == GatewayReplies(LanguageDicts)

\* Stage 2 replies: result dicts over any subset of the three keys, each
\* value of the right type or of the wrong one.
RECURSIVE SeqsUpTo(_, _)
SeqsUpTo(S, n) ==
    IF n = 0 THEN {<<>>}
    ELSE LET shorter == SeqsUpTo(S, n - 1) IN
         shorter \cup {Append(q, x) : q \in shorter, x \in S}

NoteTexts == {"Go requires explicit imports"}
NoteValues == {JArr(q) : q \in SeqsUpTo(NoteTexts, MaxNotes)} \cup {JStr("none")}
CodeValues == {JStr("fmt.Println(\"hi\")"), JArr(<<>>)}

ResultDicts ==
    { f \in UNION { [D -> NoteValues \cup CodeValues] :
                      D \in SUBSET {ResponseFields[i] : i \in 1..3} } :
        \A k \in DOMAIN f : IF k = "code" THEN f[k] \in CodeValues
                                            ELSE f[k] \in NoteValues }

Replies2 == GatewayReplies(ResultDicts)

----------------------------------------------------------------------------
(* One request on its own, with every kind of body and reply *)

Next ==
    \/ \E b \in RequestBodies : Receive(1, b)
    \/ ExtractLanguagesCall(1)
    \/ \E reply \in Replies1 : ExtractLanguagesReturn(1, reply)
    \/ ConvertCodeCall(1)
    \/ \E reply \in Replies2 : ConvertCodeReturn(1, reply)
    \/ Respond(1)

Spec == Init /\ [][Next]_vars

----------------------------------------------------------------------------
(* The same request under fair scheduling: the handler's thread keeps      *)
(* running, and every gateway call returns or raises.                      *)

FairSpec == Init /\ [][Next]_vars /\ WF_vars(Next)

----------------------------------------------------------------------------
(* Several requests in flight together, their steps interleaved at will,   *)
(* over a smaller choice of bodies and replies.                            *)

ConcBodies ==
    { b \in RequestBodies :
        \/ DOMAIN b = {}
        \/ DOMAIN b = {"code"} /\ b["code"] = "print('hi')"
        \/ DOMAIN b = {"code", "prompt"} /\ b["code"] = "print('hi')"
                                          /\ b["prompt"] = DefaultPrompt
        \/ DOMAIN b = {"code", "prompt"} /\ b["code"] = ""
                                          /\ b["prompt"] # DefaultPrompt }

ConcReplies1 ==
    { rep \in Replies1 :
        \/ rep.kind = "raise"
        \/ /\ rep.kind = "return" /\ rep.text.parses /\ rep.text.doc.kind = "object"
           /\ DOMAIN rep.text.doc.fields = {"source_language", "target_language"}
           /\ rep.text.doc.fields["source_language"] \in {JStr("python"), JStr("klingon")}
           /\ rep.text.doc.fields["target_language"] = JStr("go") }

ConcReplies2 ==
    { rep \in Replies2 :
        \/ rep.kind = "return" /\ ~rep.text.parses
        \/ /\ rep.kind = "return" /\ rep.text.parses /\ rep.text.doc.kind = "object"
           /\ DOMAIN rep.text.doc.fields = {ResponseFields[i] : i \in 1..3}
           /\ rep.text.doc.fields["code"].ty = "string"
           /\ rep.text.doc.fields["language_specific_notes"] = JArr(<<>>)
           /\ rep.text.doc.fields["potential_compatibility_issues"].ty = "array"
           /\ Len(rep.text.doc.fields["potential_compatibility_issues"].l) <= 1 }

ConcNext ==
    \E r \in Requests :
        \/ \E b \in ConcBodies : Receive(r, b)
        \/ ExtractLanguagesCall(r)
        \/ \E reply \in ConcReplies1 : ExtractLanguagesReturn(r, reply)
        \/ ConvertCodeCall(r)
        \/ \E reply \in ConcReplies2 : ConvertCodeReturn(r, reply)
        \/ Respond(r)

ConcSpec == Init /\ [][ConcNext]_vars

----------------------------------------------------------------------------
(* Vocabulary of the properties *)

\* Request r passed inbound validation and entered the pipeline.
Entered(r) == pc[r] # "idle" /\ "code" \in DOMAIN body[r]

Parsed(rep) == rep.kind = "return" /\ rep.text.parses
IsObject(rep) == Parsed(rep) /\ rep.text.doc.kind = "object"
FieldsOf(rep) == rep.text.doc.fields
HasKeys(rep, keys) == IsObject(rep) /\ keys \subseteq DOMAIN FieldsOf(rep)

Stage1Keys == {"source_language", "target_language"}
Stage2Keys == {"code", "language_specific_notes", "potential_compatibility_issues"}

\* The first key of `keys` (a sequence) reply rep lacks.
FirstMissing(rep, keys) ==
    keys[CHOOSE i \in 1..Len(keys) :
            /\ keys[i] \notin DOMAIN FieldsOf(rep)
            /\ \A j \in 1..(i - 1) : keys[j] \in DOMAIN FieldsOf(rep)]

Is500With(resp, m) ==
    /\ resp.status = 500
    /\ resp.detail = <<"Code conversion failed: ", m>>
    /\ resp.body = EmptyDict

\* The template of the i-th gateway call of request r.
Stage(r, i) == calls[r][i].prompt.template

----------------------------------------------------------------------------
\* C1: a request that entered the pipeline and met a failure (the gateway
\* raised, its reply was no JSON, or a required key was missing, at either
\* stage) ends with HTTP 500 whose detail is "Code conversion failed: "
\* followed by the failure's message, and carries no part of a result.
C1_FailureIs500 ==
    \A r \in Requests :
        (pc[r] = "done" /\ Entered(r)) =>
            \A i \in 1..Len(replies[r]) :
                LET rep == replies[r][i]
                    keys == IF i = 1 THEN <<"source_language", "target_language">>
                            ELSE <<"code", "language_specific_notes",
                                   "potential_compatibility_issues">>
                IN  /\ rep.kind = "raise" => Is500With(response[r], rep.msg)
                    /\ (rep.kind = "return" /\ ~rep.text.parses)
                           => Is500With(response[r], rep.text.error)
                    /\ (IsObject(rep) /\ ~HasKeys(rep, {keys[j] : j \in 1..Len(keys)}))
                           => Is500With(response[r],
                                        KeyErrorStr(FirstMissing(rep, keys)))

\* A request whose second reply lacked a key of the result ended with 500.
C1_Witness ==
    \E r \in Requests :
        /\ pc[r] = "done" /\ Len(replies[r]) = 2
        /\ IsObject(replies[r][2])
        /\ "code" \in DOMAIN FieldsOf(replies[r][2])
        /\ "potential_compatibility_issues" \notin DOMAIN FieldsOf(replies[r][2])
        /\ response[r].status = 500

\* C2: the Conversion call is issued only after Extraction completed on a
\* parseable reply carrying both languages; after a raise or an unparseable
\* or incomplete reply to Extraction the gateway was called exactly once.
C2_ConversionAfterExtraction ==
    \A r \in Requests :
        /\ \A i \in 1..Len(calls[r]) :
               Stage(r, i) = "convert_code" =>
                   /\ i > 1
                   /\ Stage(r, 1) = "extract_languages"
                   /\ Len(replies[r]) >= 1
                   /\ HasKeys(replies[r][1], Stage1Keys)
        /\ (Len(replies[r]) >= 1 /\ ~HasKeys(replies[r][1], Stage1Keys)) =>
               /\ Len(calls[r]) = 1
               /\ \A i \in 1..Len(calls[r]) : Stage(r, i) # "convert_code"

\* Extraction failed on a reply with only one of the languages, and the
\* request is over with a single gateway call.
C2_Witness ==
    \E r \in Requests :
        /\ pc[r] = "done" /\ Len(replies[r]) = 1 /\ Len(calls[r]) = 1
        /\ IsObject(replies[r][1])
        /\ DOMAIN FieldsOf(replies[r][1]) = {"source_language"}

\* A reply that conforms to the schema of its stage.
Conforms1(rep) ==
    /\ HasKeys(rep, Stage1Keys)
    /\ \A k \in Stage1Keys :
           FieldsOf(rep)[k].ty = "string" /\ FieldsOf(rep)[k].s \in ProgrammingLanguage

Conforms2(rep) ==
    /\ HasKeys(rep, Stage2Keys)
    /\ FieldsOf(rep)["code"].ty = "string"
    /\ FieldsOf(rep)["language_specific_notes"].ty = "array"
    /\ FieldsOf(rep)["potential_compatibility_issues"].ty = "array"

\* C3: when both replies conform to their schemas the request ends with
\* HTTP 200 and the response has exactly the three fields, each equal to
\* the same-named field of the Stage 2 reply.
C3_ResponseIsStage2Reply ==
    \A r \in Requests :
        (/\ pc[r] = "done" /\ Len(replies[r]) = 2
         /\ Conforms1(replies[r][1]) /\ Conforms2(replies[r][2])) =>
            /\ response[r].status = 200
            /\ DOMAIN response[r].body = Stage2Keys
            /\ \A k \in Stage2Keys : response[r].body[k] = FieldsOf(replies[r][2])[k]

\* A 200 whose notes are non-empty and whose issues are empty.
C3_Witness ==
    \E r \in Requests :
        /\ pc[r] = "done" /\ response[r].status = 200
        /\ Len(replies[r]) = 2
        /\ Conforms1(replies[r][1]) /\ Conforms2(replies[r][2])
        /\ response[r].body["language_specific_notes"].l # <<>>
        /\ response[r].body["potential_compatibility_issues"].l = <<>>

InCatalog(v) == v.ty = "string" /\ v.s \in ProgrammingLanguage

\* C4: once Extraction has run, source_language and target_language are in
\* the catalog, a reply naming a value outside it fails the request, and
\* no such value reaches the Conversion call.
C4_LanguagesInCatalog ==
    \A r \in Requests :
        /\ (Entered(r) /\ Len(replies[r]) >= 1 /\ node[r] # "extract_languages") =>
               InCatalog(state[r].source_language) /\ InCatalog(state[r].target_language)
        /\ (/\ Len(replies[r]) >= 1 /\ HasKeys(replies[r][1], Stage1Keys)
            /\ \E k \in Stage1Keys : ~InCatalog(FieldsOf(replies[r][1])[k])) =>
               /\ Len(calls[r]) = 1
               /\ pc[r] = "done" /\ response[r].status = 500
        /\ \A i \in 1..Len(calls[r]) :
               Stage(r, i) = "convert_code" =>
                   InCatalog(calls[r][i].prompt.args[1]) /\ InCatalog(calls[r][i].prompt.args[2])

\* The prompt the pipeline runs with for body b.
EffectivePrompt(b) ==
    IF "prompt" \in DOMAIN b THEN b["prompt"]
    ELSE "Convert the code to the target language."

\* C5: a request that omits prompt and one that carries the default prompt
\* explicitly, with the same code and the same gateway replies so far, are
\* in the same position with the same pipeline state, the same gateway
\* calls and the same response.
C5_OmittedPromptIsDefault ==
    \A r1, r2 \in Requests :
        (/\ DOMAIN body[r1] = {"code"}
         /\ DOMAIN body[r2] = {"code", "prompt"}
         /\ body[r2]["prompt"] = "Convert the code to the target language."
         /\ body[r1]["code"] = body[r2]["code"]
         /\ replies[r1] = replies[r2]
         /\ Len(calls[r1]) = Len(calls[r2])
         /\ (pc[r1] = "done") = (pc[r2] = "done")) =>
            /\ state[r1] = state[r2]
            /\ calls[r1] = calls[r2]
            /\ node[r1] = node[r2]
            /\ response[r1] = response[r2]

\* Both requests, one without prompt and one with the default, got the
\* same two replies and answered 200.
C5_Witness ==
    \E r1, r2 \in Requests :
        /\ DOMAIN body[r1] = {"code"}
        /\ DOMAIN body[r2] = {"code", "prompt"}
        /\ body[r2]["prompt"] = "Convert the code to the target language."
        /\ body[r1]["code"] = body[r2]["code"]
        /\ replies[r1] = replies[r2] /\ Len(replies[r1]) = 2
        /\ pc[r1] = "done" /\ pc[r2] = "done"
        /\ response[r1].status = 200 /\ response[r2].status = 200

\* C6: whatever the interleaving, the pipeline state, the gateway calls and
\* the response of a request come from its own body and from the replies
\* to its own calls.
C6_OwnInputsOnly ==
    \A r \in Requests :
        Entered(r) =>
            /\ state[r].code = body[r]["code"]
            /\ state[r].prompt = EffectivePrompt(body[r])
            /\ state[r].source_language =
                   IF Len(replies[r]) >= 1 /\ HasKeys(replies[r][1], {"source_language"})
                   THEN FieldsOf(replies[r][1])["source_language"] ELSE JStr("")
            /\ state[r].target_language =
                   IF Len(replies[r]) >= 1 /\ HasKeys(replies[r][1], Stage1Keys)
                   THEN FieldsOf(replies[r][1])["target_language"] ELSE JStr("")
            /\ state[r].result =
                   IF Len(replies[r]) = 2 /\ Parsed(replies[r][2])
                   THEN replies[r][2].text.doc ELSE JObject(EmptyDict)
            /\ Len(calls[r]) >= 1 =>
                   calls[r][1].prompt.args =
                       <<JStr(EffectivePrompt(body[r])), JStr(body[r]["code"])>>
            /\ Len(calls[r]) >= 2 =>
                   calls[r][2].prompt.args =
                       <<FieldsOf(replies[r][1])["source_language"],
                         FieldsOf(replies[r][1])["target_language"],
                         FieldsOf(replies[r][1])["source_language"],
                         FieldsOf(replies[r][1])["source_language"],
                         JStr(body[r]["code"])>>
            /\ (pc[r] = "done" /\ response[r].status = 200) =>
                   /\ Len(replies[r]) = 2
                   /\ \A k \in Stage2Keys :
                          response[r].body[k] = FieldsOf(replies[r][2])[k]
            /\ (pc[r] = "done" /\ response[r].status = 500) =>
                   \/ ~HasKeys(replies[r][1], Stage1Keys)
                   \/ Len(replies[r]) = 2 /\ ~Conforms2(replies[r][2])

\* Two requests with different code are both waiting for the gateway, one
\* in Conversion and one in Extraction.
C6_Witness ==
    \E r1, r2 \in Requests :
        /\ r1 # r2
        /\ pc[r1] = "wait" /\ node[r1] = "convert_code"
        /\ pc[r2] = "wait" /\ node[r2] = "extract_languages"
        /\ body[r1]["code"] # body[r2]["code"]

\* C7: a request that entered the pipeline has no response until it is
\* over, and then it has HTTP 200 with the complete three-field body, both
\* stages having completed, or HTTP 500 with no body at all.
C7_TwoOutcomes ==
    \A r \in Requests :
        Entered(r) =>
            IF pc[r] = "done"
            THEN \/ /\ response[r].status = 200
                    /\ DOMAIN response[r].body = Stage2Keys
                    /\ response[r].body["code"].ty = "string"
                    /\ response[r].body["language_specific_notes"].ty = "array"
                    /\ response[r].body["potential_compatibility_issues"].ty = "array"
                    /\ Len(calls[r]) = 2 /\ Len(replies[r]) = 2
                    /\ HasKeys(replies[r][1], Stage1Keys)
                    /\ Parsed(replies[r][2])
                    /\ node[r] = "__end__"
                 \/ /\ response[r].status = 500
                    /\ response[r].body = EmptyDict
            ELSE response[r] = [status |-> 0, body |-> EmptyDict, detail |-> <<>>]

\* Conversion completed on a reply with a field of the wrong type, and the
\* request ended with 500.
C7_Witness ==
    \E r \in Requests :
        /\ pc[r] = "done" /\ node[r] = "__end__"
        /\ HasKeys(replies[r][2], Stage2Keys) /\ ~Conforms2(replies[r][2])
        /\ response[r].status = 500

\* A reply the stage that receives it can complete on.
Usable(i, rep) ==
    IF i = 1 THEN HasKeys(rep, Stage1Keys) ELSE Parsed(rep)

\* C8: a request has at most one gateway call outstanding, and only while
\* it waits; it calls at most twice, Extraction first and Conversion
\* second; after a raise or an unusable reply it calls no more.
C8_OneCallAtATime ==
    \A r \in Requests :
        /\ Len(calls[r]) = Len(replies[r]) + (IF pc[r] = "wait" THEN 1 ELSE 0)
        /\ Len(calls[r]) <= 2
        /\ Len(calls[r]) >= 1 => Stage(r, 1) = "extract_languages"
        /\ Len(calls[r]) >= 2 => Stage(r, 2) = "convert_code"
        /\ \A i \in 1..Len(replies[r]) :
               ~Usable(i, replies[r][i]) => Len(calls[r]) = i /\ pc[r] = "done"

\* Conversion's call got no JSON back, and the request is over after two
\* calls.
C8_Witness ==
    \E r \in Requests :
        /\ pc[r] = "done" /\ Len(calls[r]) = 2 /\ Len(replies[r]) = 2
        /\ replies[r][2].kind = "return" /\ ~replies[r][2].text.parses

\* C9: under fair scheduling a request that entered the pipeline reaches a
\* response with status 200 or 500; the workflow starts at Extraction and
\* moves only from Extraction to Conversion to the end; a request leaves a
\* wait only on the gateway's reply, so without one it never responds.
C9_Terminates ==
    /\ \A r \in Requests :
           (pc[r] = "start" /\ node[r] = "extract_languages")
               ~> (pc[r] = "done" /\ response[r].status \in {200, 500})
    /\ [][\A r \in Requests :
             /\ (pc[r] = "idle" /\ pc'[r] # "idle" /\ pc'[r] # "done")
                    => (pc'[r] = "start" /\ node'[r] = "extract_languages")
             /\ node'[r] # node[r] =>
                    \/ node[r] = "" /\ node'[r] = "extract_languages"
                    \/ node[r] = "extract_languages" /\ node'[r] = "convert_code"
                    \/ node[r] = "convert_code" /\ node'[r] = "__end__"
             /\ (node[r] = "convert_code" /\ node'[r] = "__end__") => pc'[r] = "respond"
             /\ (pc[r] = "wait" /\ pc'[r] # "wait")
                    => Len(replies'[r]) = Len(replies[r]) + 1
             /\ (pc[r] # "done" /\ pc'[r] = "done" /\ Entered(r))
                    => (pc[r] \in {"wait", "respond"} /\ response'[r].status \in {200, 500})
         ]_vars

\* A request went through both stages and answered 200.
C9_Witness ==
    \E r \in Requests :
        /\ pc[r] = "done" /\ node[r] = "__end__" /\ response[r].status = 200
        /\ Len(calls[r]) = 2

\* C10: code and prompt keep the request's values; only Extraction's return
\* changes source_language and target_language, to the values of the
\* Stage 1 reply, and nothing else; only Conversion's return changes
\* result, which was empty until then, and nothing else; the Conversion
\* call carries the languages of the Stage 1 reply.
C10_Frame ==
    [][\A r \in Requests :
          LET old == state[r]
              new == state'[r]
              langs(st) == <<st.source_language, st.target_language>>
          IN  /\ pc[r] # "idle" => (new.code = old.code /\ new.prompt = old.prompt)
              /\ (pc[r] = "idle" /\ pc'[r] = "start") =>
                     /\ new.code = body'[r]["code"]
                     /\ new.prompt = EffectivePrompt(body'[r])
                     /\ langs(new) = <<JStr(""), JStr("")>>
                     /\ new.result = JObject(EmptyDict)
              /\ (pc[r] # "idle" /\ langs(new) # langs(old)) =>
                     /\ pc[r] = "wait" /\ node[r] = "extract_languages"
                     /\ new.result = old.result
              /\ (pc[r] = "wait" /\ node[r] = "extract_languages" /\ pc'[r] = "start") =>
                     /\ new.source_language =
                            FieldsOf(replies'[r][1])["source_language"]
                     /\ new.target_language =
                            FieldsOf(replies'[r][1])["target_language"]
              /\ (pc[r] # "idle" /\ new.result # old.result) =>
                     /\ pc[r] = "wait" /\ node[r] = "convert_code"
                     /\ old.result = JObject(EmptyDict)
                     /\ langs(new) = langs(old)
                     /\ new.result = replies'[r][2].text.doc
              /\ (pc[r] = "start" /\ node[r] = "convert_code" /\ pc'[r] = "wait") =>
                     calls'[r][2].prompt.args =
                         <<FieldsOf(replies[r][1])["source_language"],
                           FieldsOf(replies[r][1])["target_language"],
                           FieldsOf(replies[r][1])["source_language"],
                           FieldsOf(replies[r][1])["source_language"],
                           JStr(body[r]["code"])>>
      ]_vars

\* Conversion is waiting on a call that names python and go, the languages
\* of the Stage 1 reply, and result is still empty.
C10_Witness ==
    \E r \in Requests :
        /\ pc[r] = "wait" /\ node[r] = "convert_code"
        /\ state[r].source_language = JStr("python")
        /\ state[r].target_language = JStr("go")
        /\ state[r].result = JObject(EmptyDict)
        /\ calls[r][2].prompt.args[1] = JStr("python")
        /\ calls[r][2].prompt.args[2] = JStr("go")

=============================================================================
